---- MODULE Spec2Model ----
(***************************************************************************)
(* Model of the backend process supervisor of the desktop shell            *)
(* (packages/desktop/src-tauri/src/main.rs).                               *)
(*                                                                         *)
(* The four tauri commands run concurrently on the async runtime.  Each    *)
(* caller is a task that is either idle or at a labelled position inside   *)
(* one command.  The shared state is the Mutex<ServerState>; the mutex     *)
(* guard is modelled explicitly (lock), so that every critical section of  *)
(* the source is an acquire step followed by the steps made under the      *)
(* guard.  The operating system contributes the table of spawned           *)
(* processes (os) and the outcomes of spawn, kill, wait and of the HTTP    *)
(* health probe, which are chosen nondeterministically.                    *)
(*                                                                         *)
(* Specifications:                                                         *)
(*   Spec     start_server, stop_server, check_server_status               *)
(*   SpecAll  the same with send_message as a fourth command               *)
(*   SpecLive SpecAll with weak fairness on the steps of the runtime       *)
(*   SpecMsg  send_message alone, applied to every backend reply           *)
(*                                                                         *)
(* The frontend issues at most MaxCalls invocations in one run; every      *)
(* lifecycle scenario of the supervisor needs at most three.               *)
(*                                                                         *)
(* Mutex poisoning ("Failed to lock state") needs a panic under the guard; *)
(* no statement executed under the guard can panic, so lock() never fails. *)
(***************************************************************************)
EXTENDS Integers, FiniteSets, Sequences, TLC

\* ---- bounds ----
NumCallers == 2          \* concurrently in-flight command invocations
MaxCalls == 3            \* command invocations made by the frontend in one run
MaxSpawns == 2           \* backend processes the OS lets the model spawn
MaxMsgs == 2             \* entries of the `messages` array of a backend reply

\* ---- program constants ----
ConfiguredPort == 38080  \* ServerState.port set in main
StatusPort == 38080      \* literal in check_server_status

Callers == 1..NumCallers
Pids == 1..MaxSpawns
NoProc == 0              \* Option<Child>::None
NoLock == 0              \* mutex not held

VARIABLES
  process,   \* ServerState.process: NoProc or the pid of the stored Child
  port,      \* ServerState.port
  lock,      \* holder of the Mutex<ServerState> guard, NoLock when free
  os,        \* pid -> "none" | "alive" | "exited" | "killed" | "reaped"
  pc,        \* caller -> position in the command it is running
  child,     \* caller -> local `child` / `pid` of start_server
  held,      \* caller -> local `process` taken by stop_server
  hasProc,   \* caller -> local `has_process` of check_server_status
  running,   \* caller -> local `running` of check_server_status
  res,       \* caller -> value returned by its last completed command
  stored,    \* pids whose Child has been stored into the state (line 75)
  taken,     \* pids whose Child has been take()n out of the state
  confirmed, \* pids whose start_server returned Ok (line 83)
  calls,     \* number of commands invoked so far
  relay      \* the send_message task: position, HTTP response, partial result

vars == <<process, port, lock, os, pc, child, held, hasProc, running, res,
          stored, taken, confirmed, calls, relay>>

locals == <<child, held, hasProc, running>>
ghosts == <<stored, taken, confirmed>>

\* Result<_, String> / ServerStatus as returned to the caller
Result(tag, p, r, prt) == [tag |-> tag, pid |-> p, running |-> r, port |-> prt]
NoResult == Result("none", NoProc, FALSE, 0)
Err(tag) == Result(tag, NoProc, FALSE, 0)

\* ---------------------------------------------------------------------
\* serde_json::Value, as far as send_message looks at it
Absent == [kind |-> "absent", s |-> ""]        \* Value::get gave None
Null == [kind |-> "null", s |-> ""]
Num == [kind |-> "number", s |-> ""]
Obj == [kind |-> "object", s |-> ""]
Str(x) == [kind |-> "string", s |-> x]

\* an element of the `messages` array: an object with these fields, or not
\* an object at all
Entries ==
  [obj : {TRUE},
   type : {Absent, Num, Str("tool_call"), Str("text")},
   name : {Absent, Num, Str("search"), Str("open")},
   arguments : {Absent, Null, Obj}]
  \cup {[obj |-> FALSE, type |-> Absent, name |-> Absent, arguments |-> Absent]}

\* the `messages` field: missing, not an array, or an array of entries
MessagesValues ==
  {[kind |-> k, items |-> <<>>] : k \in {"absent", "string"}}
  \cup {[kind |-> "array", items |-> a] :
          a \in UNION {[1..n -> Entries] : n \in 0..MaxMsgs}}

\* a response body: not JSON, JSON that is not an object, or an object
NotJson == [valid |-> FALSE, obj |-> FALSE, output |-> Absent,
            messages |-> [kind |-> "absent", items |-> <<>>]]
NonObject == [NotJson EXCEPT !.valid = TRUE]
Bodies ==
  {NotJson, NonObject}
  \cup [valid : {TRUE}, obj : {TRUE},
        output : {Absent, Num, Str("hi")},
        messages : MessagesValues]

\* what the POST can come back with: no response at all, a response with a
\* non-success status, or a success status with any body
Responses ==
  {[net |-> FALSE, status |-> 0, body |-> NotJson]}
  \cup [net : {TRUE}, status : {404, 500},
        body : {NotJson, [NonObject EXCEPT !.obj = TRUE,
                                           !.output = Str("hi")]}]
  \cup [net : {TRUE}, status : {200, 201}, body : Bodies]

\* Value::get(field) on an entry
Get(msg, field) == IF msg.obj THEN msg[field] ELSE Absent
\* StatusCode::is_success
IsSuccess(status) == status >= 200 /\ status < 300

\* Result<ChatMessage, String>
MsgResult(tag, status, content, some, tcalls) ==
  [tag |-> tag, status |-> status, content |-> content,
   some |-> some, tool_calls |-> tcalls]
NoMsgResult == MsgResult("none", 0, "", FALSE, <<>>)
ToolCall(name, args) == [name |-> name, arguments |-> args]

Relay(at, resp, content, result) ==
  [pc |-> at, resp |-> resp, content |-> content, result |-> result]
\* no send_message in progress
RelayIdle == [pc |-> "idle"]

SupInit ==
  /\ process = NoProc
  /\ port = ConfiguredPort
  /\ lock = NoLock
  /\ os = [p \in Pids |-> "none"]
  /\ pc = [c \in Callers |-> "idle"]
  /\ child = [c \in Callers |-> NoProc]
  /\ held = [c \in Callers |-> NoProc]
  /\ hasProc = [c \in Callers |-> FALSE]
  /\ running = [c \in Callers |-> FALSE]
  /\ res = [c \in Callers |-> NoResult]
  /\ stored = {}
  /\ taken = {}
  /\ confirmed = {}
  /\ calls = 0

Init ==
  /\ SupInit
  /\ relay = RelayIdle

\* state.lock(): blocks until the guard is free
Acquire(c, from, to) ==
  /\ pc[c] = from
  /\ lock = NoLock
  /\ lock' = c
  /\ pc' = [pc EXCEPT ![c] = to]

\* a command returns `r` to the caller; its locals go out of scope
Return(c, r) ==
  /\ pc' = [pc EXCEPT ![c] = "idle"]
  /\ res' = [res EXCEPT ![c] = r]
  /\ child' = [child EXCEPT ![c] = NoProc]
  /\ held' = [held EXCEPT ![c] = NoProc]
  /\ hasProc' = [hasProc EXCEPT ![c] = FALSE]
  /\ running' = [running EXCEPT ![c] = FALSE]

\* Child::kill on pid p when the signal is delivered
Killed(p) == [os EXCEPT ![p] = IF @ = "alive" THEN "killed" ELSE @]
\* Child::wait on pid p when it succeeds
Reaped(p) == [os EXCEPT ![p] = "reaped"]

\* ---------------------------------------------------------------------
\* the caller invokes one of the commands
Invoke(c) ==
  /\ pc[c] = "idle"
  /\ \E first \in {"s_lock1", "st_lock", "cs_lock1"} :
        pc' = [pc EXCEPT ![c] = first]
  /\ res' = [res EXCEPT ![c] = NoResult]
  /\ calls < MaxCalls
  /\ calls' = calls + 1
  /\ UNCHANGED <<process, port, lock, os, locals, ghosts, relay>>

\* ---------------------------------------------------------------------
\* start_server
StartLock1(c) ==
  /\ Acquire(c, "s_lock1", "s_check")
  /\ UNCHANGED <<process, port, os, locals, res, ghosts, calls, relay>>

\* StartCheck without the `is_some()` rejection
StartCheckNoReject(c) ==
  /\ pc[c] = "s_check"
  /\ lock = c
  /\ lock' = NoLock
  /\ pc' = [pc EXCEPT ![c] = "s_path"]
  /\ UNCHANGED <<process, port, os, locals, res, ghosts, calls, relay>>

StartCheck(c) ==
  /\ pc[c] = "s_check"
  /\ lock = c
  /\ lock' = NoLock
  /\ IF process # NoProc
       THEN Return(c, Err("AlreadyRunning"))
       ELSE /\ pc' = [pc EXCEPT ![c] = "s_path"]
            /\ UNCHANGED <<res, locals>>
  /\ UNCHANGED <<process, port, os, ghosts, calls, relay>>

StartPath(c) ==
  /\ pc[c] = "s_path"
  /\ \E ok \in BOOLEAN :
        IF ok THEN /\ pc' = [pc EXCEPT ![c] = "s_spawn"]
                   /\ UNCHANGED <<res, locals>>
              ELSE Return(c, Err("PathResolutionError"))
  /\ UNCHANGED <<process, port, lock, os, ghosts, calls, relay>>

StartSpawn(c) ==
  /\ pc[c] = "s_spawn"
  /\ \/ \E p \in Pids :
          /\ os[p] = "none"
          /\ \A q \in Pids : q < p => os[q] # "none"
          /\ os' = [os EXCEPT ![p] = "alive"]
          /\ child' = [child EXCEPT ![c] = p]
          /\ pc' = [pc EXCEPT ![c] = "s_lock2"]
          /\ UNCHANGED <<res, held, hasProc, running>>
     \/ /\ Return(c, Err("SpawnError"))
        /\ UNCHANGED os
  /\ UNCHANGED <<process, port, lock, ghosts, calls, relay>>

StartLock2(c) ==
  /\ Acquire(c, "s_lock2", "s_store")
  /\ UNCHANGED <<process, port, os, locals, res, ghosts, calls, relay>>

\* StartStore whose guard lives on through the sleep and the probe
StartStoreKeepGuard(c) ==
  /\ pc[c] = "s_store"
  /\ lock = c
  /\ process' = child[c]
  /\ stored' = stored \cup {child[c]}
  /\ pc' = [pc EXCEPT ![c] = "s_sleep"]
  /\ UNCHANGED <<port, lock, os, locals, res, taken, confirmed, calls, relay>>

StartStore(c) ==
  /\ pc[c] = "s_store"
  /\ lock = c
  /\ process' = child[c]
  /\ stored' = stored \cup {child[c]}
  /\ lock' = NoLock
  /\ pc' = [pc EXCEPT ![c] = "s_sleep"]
  /\ UNCHANGED <<port, os, locals, res, taken, confirmed, calls, relay>>

StartSleep(c) ==
  /\ pc[c] = "s_sleep"
  /\ pc' = [pc EXCEPT ![c] = "s_probe"]
  /\ UNCHANGED <<process, port, lock, os, locals, res, ghosts, calls, relay>>

StartProbe(c) ==
  /\ pc[c] = "s_probe"
  /\ \E healthy \in BOOLEAN :
        IF healthy
          THEN /\ Return(c, Result("Started", child[c], FALSE, 0))
               /\ confirmed' = confirmed \cup {child[c]}
          ELSE /\ pc' = [pc EXCEPT ![c] = "s_lock3"]
               /\ UNCHANGED <<res, locals, confirmed>>
  /\ UNCHANGED <<process, port, lock, os, stored, taken, calls, relay>>

StartLock3(c) ==
  /\ Acquire(c, "s_lock3", "s_teardown")
  /\ UNCHANGED <<process, port, os, locals, res, ghosts, calls, relay>>

\* StartTeardown that puts the Child back when the kill is not delivered
StartTeardownPutBack(c) ==
  /\ pc[c] = "s_teardown"
  /\ lock = c
  /\ IF process # NoProc
       THEN /\ taken' = taken \cup {process}
            /\ \E delivered \in BOOLEAN :
                 /\ os' = IF delivered THEN Killed(process) ELSE os
                 /\ process' = IF delivered THEN NoProc ELSE process
       ELSE UNCHANGED <<process, os, taken>>
  /\ lock' = NoLock
  /\ Return(c, Err("StartupHealthCheckFailed"))
  /\ UNCHANGED <<port, stored, confirmed, calls, relay>>

StartTeardown(c) ==
  /\ pc[c] = "s_teardown"
  /\ lock = c
  /\ IF process # NoProc
       THEN /\ \E delivered \in BOOLEAN :
                 os' = IF delivered THEN Killed(process) ELSE os
            /\ taken' = taken \cup {process}
       ELSE UNCHANGED <<os, taken>>
  /\ process' = NoProc
  /\ lock' = NoLock
  /\ Return(c, Err("StartupHealthCheckFailed"))
  /\ UNCHANGED <<port, stored, confirmed, calls, relay>>

\* ---------------------------------------------------------------------
\* stop_server: the guard is held from line 98 until the function returns
StopLock(c) ==
  /\ Acquire(c, "st_lock", "st_take")
  /\ UNCHANGED <<process, port, os, locals, res, ghosts, calls, relay>>

\* StopTake that reports success when there is nothing to stop
StopTakeLenient(c) ==
  /\ pc[c] = "st_take"
  /\ lock = c
  /\ IF process # NoProc
       THEN /\ held' = [held EXCEPT ![c] = process]
            /\ taken' = taken \cup {process}
            /\ process' = NoProc
            /\ pc' = [pc EXCEPT ![c] = "st_kill"]
            /\ UNCHANGED <<lock, res, child, hasProc, running>>
       ELSE /\ lock' = NoLock
            /\ Return(c, Result("Stopped", NoProc, FALSE, 0))
            /\ UNCHANGED <<process, taken>>
  /\ UNCHANGED <<port, os, stored, confirmed, calls, relay>>

StopTake(c) ==
  /\ pc[c] = "st_take"
  /\ lock = c
  /\ IF process # NoProc
       THEN /\ held' = [held EXCEPT ![c] = process]
            /\ taken' = taken \cup {process}
            /\ process' = NoProc
            /\ pc' = [pc EXCEPT ![c] = "st_kill"]
            /\ UNCHANGED <<lock, res, child, hasProc, running>>
       ELSE /\ lock' = NoLock
            /\ Return(c, Err("NotRunning"))
            /\ UNCHANGED <<process, taken>>
  /\ UNCHANGED <<port, os, stored, confirmed, calls, relay>>

\* StopKill that keeps the handle for a retry when the kill is not delivered
StopKillKeepHandle(c) ==
  /\ pc[c] = "st_kill"
  /\ lock = c
  /\ \E delivered \in BOOLEAN :
        IF delivered
          THEN /\ os' = Killed(held[c])
               /\ pc' = [pc EXCEPT ![c] = "st_wait"]
               /\ UNCHANGED <<process, lock, res, locals>>
          ELSE /\ lock' = NoLock
               /\ process' = held[c]
               /\ Return(c, Err("TerminationError"))
               /\ UNCHANGED os
  /\ UNCHANGED <<port, ghosts, calls, relay>>

\* StopKill whose error return leaves the guard locked
StopKillKeepGuard(c) ==
  /\ pc[c] = "st_kill"
  /\ lock = c
  /\ \E delivered \in BOOLEAN :
        IF delivered
          THEN /\ os' = Killed(held[c])
               /\ pc' = [pc EXCEPT ![c] = "st_wait"]
               /\ UNCHANGED <<lock, res, locals>>
          ELSE /\ UNCHANGED lock
               /\ Return(c, Err("TerminationError"))
               /\ UNCHANGED os
  /\ UNCHANGED <<process, port, ghosts, calls, relay>>

StopKill(c) ==
  /\ pc[c] = "st_kill"
  /\ lock = c
  /\ \E delivered \in BOOLEAN :
        IF delivered
          THEN /\ os' = Killed(held[c])
               /\ pc' = [pc EXCEPT ![c] = "st_wait"]
               /\ UNCHANGED <<lock, res, locals>>
          ELSE /\ lock' = NoLock
               /\ Return(c, Err("TerminationError"))
               /\ UNCHANGED os
  /\ UNCHANGED <<process, port, ghosts, calls, relay>>

StopWait(c) ==
  /\ pc[c] = "st_wait"
  /\ lock = c
  /\ \E waited \in BOOLEAN :
        os' = IF waited THEN Reaped(held[c]) ELSE os
  /\ lock' = NoLock
  /\ Return(c, Result("Stopped", NoProc, FALSE, 0))
  /\ UNCHANGED <<process, port, ghosts, calls, relay>>

\* ---------------------------------------------------------------------
\* check_server_status
StatusLock1(c) ==
  /\ Acquire(c, "cs_lock1", "cs_read")
  /\ UNCHANGED <<process, port, os, locals, res, ghosts, calls, relay>>

StatusRead(c) ==
  /\ pc[c] = "cs_read"
  /\ lock = c
  /\ hasProc' = [hasProc EXCEPT ![c] = (process # NoProc)]
  /\ lock' = NoLock
  /\ pc' = [pc EXCEPT ![c] = IF process # NoProc THEN "cs_probe" ELSE "cs_lock2"]
  /\ UNCHANGED <<process, port, os, child, held, running, res, ghosts, calls, relay>>

StatusProbe(c) ==
  /\ pc[c] = "cs_probe"
  /\ \E healthy \in BOOLEAN :
        running' = [running EXCEPT ![c] = healthy]
  /\ pc' = [pc EXCEPT ![c] = "cs_lock2"]
  /\ UNCHANGED <<process, port, lock, os, child, held, hasProc, res, ghosts, calls, relay>>

StatusLock2(c) ==
  /\ Acquire(c, "cs_lock2", "cs_pid")
  /\ UNCHANGED <<process, port, os, locals, res, ghosts, calls, relay>>

\* StatusPid that reports a port only while a handle is held
StatusPidPortIfHeld(c) ==
  /\ pc[c] = "cs_pid"
  /\ lock = c
  /\ lock' = NoLock
  /\ Return(c, Result("Status", process, running[c],
                      IF process # NoProc THEN StatusPort ELSE 0))
  /\ UNCHANGED <<process, port, os, ghosts, calls, relay>>

\* StatusPid that drops the handle of an unreachable backend
StatusPidReclaim(c) ==
  /\ pc[c] = "cs_pid"
  /\ lock = c
  /\ lock' = NoLock
  /\ process' = IF running[c] THEN process ELSE NoProc
  /\ Return(c, Result("Status", process', running[c], StatusPort))
  /\ UNCHANGED <<port, os, ghosts, calls, relay>>

StatusPid(c) ==
  /\ pc[c] = "cs_pid"
  /\ lock = c
  /\ lock' = NoLock
  /\ Return(c, Result("Status", process, running[c], StatusPort))
  /\ UNCHANGED <<process, port, os, ghosts, calls, relay>>

\* ---------------------------------------------------------------------
\* the backend process exits on its own (crash or normal exit)
ProcExit(p) ==
  /\ os[p] = "alive"
  /\ os' = [os EXCEPT ![p] = "exited"]
  /\ UNCHANGED <<process, port, lock, pc, locals, res, ghosts, calls, relay>>

Next ==
  \/ \E c \in Callers : Invoke(c)
  \/ \E c \in Callers : StartLock1(c)
  \/ \E c \in Callers : StartCheck(c)
  \/ \E c \in Callers : StartPath(c)
  \/ \E c \in Callers : StartSpawn(c)
  \/ \E c \in Callers : StartLock2(c)
  \/ \E c \in Callers : StartStore(c)
  \/ \E c \in Callers : StartSleep(c)
  \/ \E c \in Callers : StartProbe(c)
  \/ \E c \in Callers : StartLock3(c)
  \/ \E c \in Callers : StartTeardown(c)
  \/ \E c \in Callers : StopLock(c)
  \/ \E c \in Callers : StopTake(c)
  \/ \E c \in Callers : StopKill(c)
  \/ \E c \in Callers : StopWait(c)
  \/ \E c \in Callers : StatusLock1(c)
  \/ \E c \in Callers : StatusRead(c)
  \/ \E c \in Callers : StatusProbe(c)
  \/ \E c \in Callers : StatusLock2(c)
  \/ \E c \in Callers : StatusPid(c)
  \/ \E p \in Pids : ProcExit(p)

Spec == Init /\ [][Next]_vars

TypeOK ==
  /\ process \in Pids \cup {NoProc}
  /\ port = ConfiguredPort
  /\ lock \in Callers \cup {NoLock}
  /\ os \in [Pids -> {"none", "alive", "exited", "killed", "reaped"}]
  /\ calls \in 0..MaxCalls

\* ---------------------------------------------------------------------
\* send_message.  It takes no ServerState: the task shares nothing with the
\* supervisor commands, so it is run on its own, one reply at a time.
supvars == <<process, port, lock, os, pc, child, held, hasProc, running, res,
             stored, taken, confirmed, calls>>

Placeholder == "No response"

\* .get("output").and_then(|v| v.as_str()).unwrap_or_default()
ContentOfOrEmpty(body) ==
  LET v == IF body.obj THEN body.output ELSE Absent
  IN  IF v.kind = "string" THEN v.s ELSE ""

\* .get("output").and_then(|v| v.as_str()).unwrap_or("No response")
ContentOf(body) ==
  LET v == IF body.obj THEN body.output ELSE Absent
  IN  IF v.kind = "string" THEN v.s ELSE Placeholder

\* the two `if let` of the loop body without the arguments requirement
QualifiesNameOnly(msg) ==
  /\ Get(msg, "type") = Str("tool_call")
  /\ Get(msg, "name").kind = "string"

\* the two `if let` of the loop body: type is the string "tool_call", name
\* is a string, arguments is there (whatever its value)
Qualifies(msg) ==
  /\ Get(msg, "type") = Str("tool_call")
  /\ Get(msg, "name").kind = "string"
  /\ Get(msg, "arguments") # Absent

\* the `for msg in arr` loop, pushing onto `calls`
RECURSIVE Scan(_, _)
Scan(arr, tcalls) ==
  IF arr = <<>>
    THEN tcalls
    ELSE Scan(Tail(arr),
              IF Qualifies(Head(arr))
                THEN Append(tcalls, ToolCall(Get(Head(arr), "name").s,
                                             Get(Head(arr), "arguments")))
                ELSE tcalls)

\* Option<Vec<ToolCall>>
NoCalls == [some |-> FALSE, calls |-> <<>>]
SomeCalls(tcalls) == [some |-> TRUE, calls |-> tcalls]

ToolCallsOf(body) ==
  LET m == IF body.obj THEN body.messages ELSE [kind |-> "absent", items |-> <<>>]
  IN  IF m.kind # "array"
        THEN NoCalls
        ELSE LET tcalls == Scan(m.items, <<>>)
             IN  IF tcalls # <<>> THEN SomeCalls(tcalls) ELSE NoCalls

MsgDone(result) == relay' = [relay EXCEPT !.pc = "done", !.result = result]
MsgErr(tag, status) == MsgResult(tag, status, "", FALSE, <<>>)

MsgSend ==
  /\ relay.pc = "m_send"
  /\ IF relay.resp.net
       THEN relay' = [relay EXCEPT !.pc = "m_status"]
       ELSE MsgDone(MsgErr("TransportError", 0))
  /\ UNCHANGED supvars

\* MsgStatus that leaves the status to the JSON decoding
MsgStatusNoCheck ==
  /\ relay.pc = "m_status"
  /\ relay' = [relay EXCEPT !.pc = "m_json"]
  /\ UNCHANGED supvars

MsgStatus ==
  /\ relay.pc = "m_status"
  /\ IF ~IsSuccess(relay.resp.status)
       THEN MsgDone(MsgErr("ServerError", relay.resp.status))
       ELSE relay' = [relay EXCEPT !.pc = "m_json"]
  /\ UNCHANGED supvars

MsgJson ==
  /\ relay.pc = "m_json"
  /\ IF relay.resp.body.valid
       THEN relay' = [relay EXCEPT !.pc = "m_content"]
       ELSE MsgDone(MsgErr("DecodeError", 0))
  /\ UNCHANGED supvars

MsgContent ==
  /\ relay.pc = "m_content"
  /\ relay' = [relay EXCEPT !.pc = "m_calls",
                            !.content = ContentOf(relay.resp.body)]
  /\ UNCHANGED supvars

MsgToolCalls ==
  /\ relay.pc = "m_calls"
  /\ LET tc == ToolCallsOf(relay.resp.body)
     IN  MsgDone(MsgResult("Message", 0, relay.content, tc.some, tc.calls))
  /\ UNCHANGED supvars

InitMsg ==
  /\ SupInit
  /\ relay \in {Relay("m_send", r, "", NoMsgResult) : r \in Responses}

NextMsg ==
  \/ MsgSend
  \/ MsgStatus
  \/ MsgJson
  \/ MsgContent
  \/ MsgToolCalls

SpecMsg == InitMsg /\ [][NextMsg]_vars

\* ---------------------------------------------------------------------
\* The four commands together.  Here send_message is a command a caller
\* runs next to the others; only what matters to the other commands is
\* kept of it: it never touches the guard, it waits for the backend's reply
\* to its POST with no timeout, and it returns an error or a ChatMessage.
InvokeRelay(c) ==
  /\ pc[c] = "idle"
  /\ calls < MaxCalls
  /\ calls' = calls + 1
  /\ pc' = [pc EXCEPT ![c] = "m_post"]
  /\ res' = [res EXCEPT ![c] = NoResult]
  /\ UNCHANGED <<process, port, lock, os, locals, ghosts, relay>>

\* the reply (or the transport failure) arrives and the call returns
MsgRelay(c) ==
  /\ pc[c] = "m_post"
  /\ \E tag \in {"TransportError", "ServerError", "DecodeError", "Message"} :
        Return(c, Err(tag))
  /\ UNCHANGED <<process, port, lock, os, ghosts, calls, relay>>

NextAll ==
  \/ Next
  \/ \E c \in Callers : InvokeRelay(c)
  \/ \E c \in Callers : MsgRelay(c)

SpecAll == Init /\ [][NextAll]_vars

\* the steps of caller c that the runtime makes by itself: every step of
\* start, stop and status.  The sleep and the health probe are bounded
\* (3 s, 2 s timeout), kill and wait return, and lock() returns once the
\* guard is free.  The reply to send_message's POST is not among them.
Step(c) ==
  \/ StartLock1(c) \/ StartCheck(c) \/ StartPath(c) \/ StartSpawn(c)
  \/ StartLock2(c) \/ StartStore(c) \/ StartSleep(c) \/ StartProbe(c)
  \/ StartLock3(c) \/ StartTeardown(c)
  \/ StopLock(c) \/ StopTake(c) \/ StopKill(c) \/ StopWait(c)
  \/ StatusLock1(c) \/ StatusRead(c) \/ StatusProbe(c)
  \/ StatusLock2(c) \/ StatusPid(c)

Fairness == \A c \in Callers : WF_vars(Step(c))

SpecLive == SpecAll /\ Fairness

\* =====================================================================
\* Properties of the supervisor
\* =====================================================================

\* positions of start_server between passing the check and storing the Child
CheckedNotStored == {"s_path", "s_spawn", "s_lock2", "s_store"}
\* positions of start_server between storing the Child and the probe result
StoredNotProbed == {"s_sleep", "s_probe"}
\* positions of stop_server after it took a Child
StopHolding == {"st_kill", "st_wait"}
\* positions of check_server_status
StatusPcs == {"cs_lock1", "cs_read", "cs_probe", "cs_lock2", "cs_pid"}
\* spawned processes that are running and have not been signalled
Live == {p \in Pids : os[p] = "alive"}

\* C1: start and stop are mutually exclusive and see a consistent pre-state:
\* no second start passes the "no handle" check while a first start is
\* between its check and its store, and no stop takes the handle of a start
\* that is between its store and its health check.
C1_StartStopExclusive ==
  \A c, d \in Callers :
    c # d =>
      /\ ~(pc[c] \in CheckedNotStored /\ pc[d] \in CheckedNotStored)
      /\ ~(pc[c] \in StoredNotProbed /\ pc[d] \in StopHolding
             /\ held[d] = child[c])

\* C2: at most one spawned backend process is alive and un-signalled, and it
\* is the one the supervisor holds: the stored handle, or the Child a call is
\* just about to store or has just taken.
C2_SingleInstance ==
  /\ Cardinality(Live) <= 1
  /\ \A p \in Live :
       \/ process = p
       \/ \E c \in Callers : child[c] = p /\ pc[c] \in {"s_lock2", "s_store"}
       \/ \E c \in Callers : held[c] = p /\ pc[c] = "st_kill"

\* C3: a start that finds a handle held fails with AlreadyRunning, spawns no
\* process and leaves the handle untouched.
C3_SecondStartRejected ==
  [][\A c \in Callers :
       (pc[c] = "s_check" /\ pc'[c] # "s_check" /\ process # NoProc) =>
          /\ pc'[c] = "idle"
          /\ res'[c] = Err("AlreadyRunning")
          /\ process' = process
          /\ os' = os
          /\ stored' = stored]_vars

C3_Witness ==
  \E c \in Callers :
    /\ pc[c] = "idle"
    /\ res[c].tag = "AlreadyRunning"
    /\ process # NoProc
    /\ os[process] = "alive"

\* C4: when the post-spawn probe is unhealthy, start fails with
\* StartupHealthCheckFailed, the process this call spawned is terminated and
\* the handle is cleared (so that a following status reports running=false
\* and no pid).
C4_FailedStartTearsDown ==
  [][\A c \in Callers :
       (pc[c] = "s_teardown" /\ pc'[c] = "idle") =>
          /\ res'[c] = Err("StartupHealthCheckFailed")
          /\ process' = NoProc
          /\ os'[child[c]] # "alive"]_vars

\* C5: a stop that finds no handle fails with NotRunning, signals no process
\* and leaves the state unchanged.
C5_StopWhenNotRunning ==
  [][\A c \in Callers :
       (pc[c] = "st_take" /\ pc'[c] # "st_take" /\ process = NoProc) =>
          /\ pc'[c] = "idle"
          /\ res'[c] = Err("NotRunning")
          /\ process' = process
          /\ port' = port
          /\ os' = os
          /\ taken' = taken]_vars

C5_Witness ==
  \E c \in Callers :
    /\ pc[c] = "idle"
    /\ res[c].tag = "NotRunning"
    /\ stored = {}

\* C6: once stop has found a handle, the state holds no handle until stop
\* returns and when it returns, whether it succeeds or fails with
\* TerminationError; the handle it found has been taken for good.
C6_StopClearsHandle ==
  [][\A c \in Callers :
       (pc[c] \in StopHolding \/ (pc[c] = "st_take" /\ process # NoProc)) /\ pc'[c] # pc[c] =>
          /\ process' = NoProc
          /\ (pc'[c] = "idle" => res'[c].tag \in {"Stopped", "TerminationError"})
          /\ (pc[c] \in StopHolding => held[c] \in taken' /\ process = NoProc)]_vars

C6_Witness ==
  \E c \in Callers :
    /\ pc[c] = "idle"
    /\ res[c].tag = "TerminationError"
    /\ process = NoProc
    /\ taken # {}

\* C7: when stop delivered the signal and the wait on the process failed,
\* stop does not return success.
C7_WaitFailureReported ==
  [][\A c \in Callers :
       (pc[c] = "st_wait" /\ pc'[c] = "idle" /\ os'[held[c]] # "reaped") =>
          res'[c].tag # "Stopped"]_vars

C9_ExitObservedClearsHandle ==
  [][\A c \in Callers :
       (/\ pc[c] = "cs_pid" /\ pc'[c] = "idle"
        /\ hasProc[c] /\ ~running[c]
        /\ process # NoProc /\ process \in confirmed
        /\ os[process] = "exited") =>
          process' = NoProc]_vars

\* C10: no step of check_server_status changes the handle, the port or a
\* process; it probes only after observing a handle, reports running=false
\* without probing when it observed none, and reports running=true only if
\* it observed a handle and its own probe was healthy.
C10_StatusReadOnly ==
  [][\A c \in Callers :
       ((pc[c] \in StatusPcs \/ pc'[c] \in StatusPcs) /\ pc'[c] # pc[c]) =>
          /\ process' = process
          /\ port' = port
          /\ os' = os
          /\ (pc'[c] = "cs_probe" => hasProc'[c] /\ process # NoProc)
          /\ (pc[c] = "cs_read" /\ process = NoProc =>
                pc'[c] = "cs_lock2" /\ ~running'[c])
          /\ (pc[c] = "cs_pid" =>
                /\ pc'[c] = "idle"
                /\ res'[c].running = (hasProc[c] /\ running[c])
                /\ (~hasProc[c] => ~res'[c].running))]_vars

C10_Witness ==
  \E c \in Callers :
    /\ pc[c] = "idle"
    /\ res[c].tag = "Status"
    /\ res[c].running
    /\ res[c].pid # NoProc
    /\ process = res[c].pid

\* C11: every ServerStatus returned by check_server_status carries the
\* configured port 38080, whatever the process state.
C11_StatusPortFixed ==
  \A c \in Callers :
    res[c].tag = "Status" => res[c].port = 38080 /\ res[c].port = port

C11_Witness ==
  \E c \in Callers :
    /\ pc[c] = "idle"
    /\ res[c].tag = "Status"
    /\ res[c].pid = NoProc
    /\ taken # {}
    /\ res[c].port = 38080

\* C17: when start returns success with pid p, the state holds a handle
\* and that handle is p.
C17_StartedHoldsOwnHandle ==
  [][\A c \in Callers :
       (pc[c] = "s_probe" /\ pc'[c] = "idle" /\ res'[c].tag = "Started") =>
          /\ res'[c].pid = child[c]
          /\ process' # NoProc
          /\ process' = res'[c].pid]_vars

\* C18: the failure teardown of a start takes and kills only the Child that
\* same start spawned.
C18_TeardownKillsOwnChild ==
  [][\A c \in Callers :
       (pc[c] = "s_teardown" /\ pc'[c] = "idle" /\ process # NoProc) =>
          process = child[c]]_vars

\* C19: every ServerStatus returned is consistent: running=true implies a
\* pid is present (equivalently, no pid implies running=false).
C19_StatusConsistent ==
  \A c \in Callers :
    res[c].tag = "Status" => (res[c].running => res[c].pid # NoProc)

\* C20: no process the supervisor signalled remains unreaped once the
\* operation that signalled it has returned, on the stop path and on the
\* failed-start teardown path.
C20_SignalledIsReaped ==
  \A p \in Pids :
    os[p] = "killed" => \E c \in Callers : pc[c] = "st_wait" /\ held[c] = p

\* positions at which a call has an HTTP request in flight
InNetworkCall == {"s_probe", "cs_probe", "m_post"}
\* positions at which a call waits for the guard
WaitingForGuard ==
  {"s_lock1", "s_lock2", "s_lock3", "st_lock", "cs_lock1", "cs_lock2"}
\* the values a command can return
SuccessTags == {"Started", "Stopped", "Status", "Message"}
ErrorTags ==
  {"AlreadyRunning", "PathResolutionError", "SpawnError",
   "StartupHealthCheckFailed", "NotRunning", "TerminationError",
   "TransportError", "ServerError", "DecodeError"}

\* C12: a call that has a health probe or the relay POST in flight does not
\* hold the guard; the guard is held only at positions inside a critical
\* section, none of which is a network call.
C12_GuardNotHeldOverNetwork ==
  \A c \in Callers :
    /\ pc[c] \in InNetworkCall => lock # c
    /\ lock = c =>
         pc[c] \in {"s_check", "s_store", "s_teardown", "st_take", "st_kill",
                    "st_wait", "cs_read", "cs_pid"}

C12_Witness ==
  \E c, d \in Callers :
    /\ pc[c] = "s_probe"
    /\ pc[d] = "cs_read"
    /\ lock = d

\* C13 (as stated): every call of the four commands eventually returns.
C13_EveryCallReturns ==
  \A c \in Callers : (pc[c] # "idle") ~> (pc[c] = "idle")

\* C13 (amended): every start, stop and status call eventually returns,
\* and every value returned by any of the four commands is a success value
\* or an error; send_message returns when the reply to its POST arrives.
C13_SupervisorCallsReturn ==
  /\ \A c \in Callers : (pc[c] \notin {"idle", "m_post"}) ~> (pc[c] = "idle")
  /\ [](\A c \in Callers :
          (pc[c] = "idle" /\ res[c] # NoResult) =>
             res[c].tag \in SuccessTags \cup ErrorTags)

C13_Witness ==
  \E c, d \in Callers :
    /\ pc[c] = "st_wait"
    /\ lock = c
    /\ pc[d] \in WaitingForGuard

\* =====================================================================
\* Properties of send_message
\* =====================================================================

\* the `messages` array of a reply, empty when there is none
ItemsOf(body) ==
  IF body.obj /\ body.messages.kind = "array" THEN body.messages.items ELSE <<>>

\* the tool-calls value made of the entries of `items` that satisfy Q, in
\* order; absent when there is none
CallsSelected(items, Q(_)) ==
  LET sel == SelectSeq(items, Q)
  IN  IF sel = <<>>
        THEN NoCalls
        ELSE SomeCalls([i \in 1..Len(sel) |->
                          ToolCall(sel[i].name.s, sel[i].arguments)])

\* an entry of type tool_call with a name field and an arguments field
HasNameAndArguments(e) ==
  /\ e.obj
  /\ e.type = Str("tool_call")
  /\ e.name.kind # "absent"
  /\ e.arguments.kind # "absent"

\* the same, with the name being a JSON string
HasStringNameAndArguments(e) ==
  /\ e.obj
  /\ e.type = Str("tool_call")
  /\ e.name.kind = "string"
  /\ e.arguments.kind # "absent"

ReturnedCalls ==
  [some |-> relay.result.some, calls |-> relay.result.tool_calls]

\* C14 (as stated): the tool-calls result is the subsequence, in order, of
\* the entries of type tool_call that have a name field and an arguments
\* field; absent when there is none or no array.
C14_ToolCallsNamePresent ==
  (relay.pc = "done" /\ relay.result.tag = "Message") =>
     ReturnedCalls = CallsSelected(ItemsOf(relay.resp.body), HasNameAndArguments)

\* C14 (amended): the same subsequence, of the entries of type tool_call
\* whose name is a string and whose arguments field is present.
C14_ToolCallsStringName ==
  (relay.pc = "done" /\ relay.result.tag = "Message") =>
     /\ ReturnedCalls =
          CallsSelected(ItemsOf(relay.resp.body), HasStringNameAndArguments)
     /\ (relay.result.some => relay.result.tool_calls # <<>>)

C14_Witness ==
  /\ relay.pc = "done"
  /\ relay.result.tag = "Message"
  /\ Len(ItemsOf(relay.resp.body)) = 2
  /\ ItemsOf(relay.resp.body)[1].type = Str("tool_call")
  /\ ItemsOf(relay.resp.body)[1].name = Str("open")
  /\ ItemsOf(relay.resp.body)[1].arguments = Absent
  /\ relay.result.some
  /\ relay.result.tool_calls = <<ToolCall("search", Obj)>>

\* C15: the outcome is TransportError on a network failure, else
\* ServerError(status) on a non-success status, else DecodeError on a body
\* that is not JSON, else a ChatMessage; the body of a non-success response
\* is never decoded.
C15_OutcomePrecedence ==
  /\ relay.pc = "done" =>
       /\ relay.result.tag =
            IF ~relay.resp.net THEN "TransportError"
            ELSE IF relay.resp.status \notin 200..299 THEN "ServerError"
            ELSE IF ~relay.resp.body.valid THEN "DecodeError"
            ELSE "Message"
       /\ relay.result.tag = "ServerError" =>
            relay.result.status = relay.resp.status
  /\ relay.pc \in {"m_json", "m_content", "m_calls"} =>
       relay.resp.net /\ relay.resp.status \in 200..299

C15_Witness ==
  /\ relay.pc = "done"
  /\ relay.resp.status = 500
  /\ relay.resp.body.valid
  /\ relay.result.tag = "ServerError"
  /\ relay.result.status = 500

\* C16: for a decoded JSON reply the content is the top-level output string
\* when there is one and the placeholder "No response" otherwise; a missing
\* output is never an error.
C16_ContentOrPlaceholder ==
  (relay.pc = "done" /\ relay.resp.net /\ relay.resp.status \in 200..299
     /\ relay.resp.body.valid) =>
     /\ relay.result.tag = "Message"
     /\ relay.result.content =
          IF relay.resp.body.obj /\ relay.resp.body.output.kind = "string"
            THEN relay.resp.body.output.s
            ELSE "No response"

C16_Witness ==
  /\ relay.pc = "done"
  /\ relay.resp.body.obj
  /\ relay.resp.body.output = Absent
  /\ relay.result.tag = "Message"
  /\ relay.result.content = "No response"

====
